---- MODULE Spec2Model ----
(***************************************************************************)
(* Model of maslibpy's prompt-based reasoning loop                         *)
(* (src/maslibpy/reasoning/prompt_based.py): PromptBased.invoke and the    *)
(* generate / critique / grade steps it drives against two backends.       *)
(*                                                                         *)
(* Python text is a sequence of one-character strings; a backend's         *)
(* message content is a tagged value (text, None, GradeNode, dict).        *)
(***************************************************************************)
EXTENDS Integers, Sequences, FiniteSets, TLC

(***************************************************************************)
(* Bounds of the model.                                                    *)
(***************************************************************************)
\* largest agent.max_iterations explored
MaxIterations == 2
\* largest number of tokens a critic reply is built from in GradeSpec
MaxTokens == 3

(***************************************************************************)
(* Python str operations used by the code.                                 *)
(***************************************************************************)
\* A character is a one-character string, so the alphabet is what such a
\* string can hold: the code points up to U+00FF.  Upper lists the characters
\* of that range that str.lower() changes, Lower what it turns them into.
Upper == <<"A","B","C","D","E","F","G","H","I","J","K","L","M",
           "N","O","P","Q","R","S","T","U","V","W","X","Y","Z",
           "À","Á","Â","Ã","Ä","Å","Æ","Ç","È","É","Ê","Ë","Ì","Í","Î","Ï",
           "Ð","Ñ","Ò","Ó","Ô","Õ","Ö","Ø","Ù","Ú","Û","Ü","Ý","Þ">>
Lower == <<"a","b","c","d","e","f","g","h","i","j","k","l","m",
           "n","o","p","q","r","s","t","u","v","w","x","y","z",
           "à","á","â","ã","ä","å","æ","ç","è","é","ê","ë","ì","í","î","ï",
           "ð","ñ","ò","ó","ô","õ","ö","ø","ù","ú","û","ü","ý","þ">>
\* the characters of that range that str.strip() removes (str.isspace): tab,
\* line feed, vertical tab, form feed, carriage return, U+001C to U+001F,
\* space, U+0085 and U+00A0
Whitespace == {"\t", "\n", "", "\f", "\r", "", "", "", "", " ", "", " "}

UpperSet == {Upper[k] : k \in DOMAIN Upper}
LowerOf == [c \in UpperSet |-> Lower[CHOOSE k \in DOMAIN Upper : Upper[k] = c]]

\* one character of str.lower()
LowerChar(c) == IF c \in UpperSet THEN LowerOf[c] ELSE c

\* str.lower()
StrLower(s) == [k \in 1..Len(s) |-> LowerChar(s[k])]

\* str.strip(): whitespace removed at both ends
StrStrip(s) ==
    LET keep == {k \in 1..Len(s) : s[k] \notin Whitespace}
    IN  IF keep = {} THEN <<>>
        ELSE LET lo == CHOOSE k \in keep : \A j \in keep : k <= j
                 hi == CHOOSE k \in keep : \A j \in keep : k >= j
             IN  SubSeq(s, lo, hi)

\* 0-based offsets at which sub occurs in s
Occurrences(sub, s) ==
    {p \in 0..(Len(s) - Len(sub)) : SubSeq(s, p + 1, p + Len(sub)) = sub}

\* sub in s
StrIn(sub, s) == Occurrences(sub, s) # {}

\* s.rfind(sub): the highest offset, -1 when absent
StrRfind(s, sub) ==
    LET occ == Occurrences(sub, s)
    IN  IF occ = {} THEN -1
        ELSE CHOOSE p \in occ : \A q \in occ : p >= q

\* s[k:] for k >= 0
StrFrom(s, k) == IF k >= Len(s) THEN <<>> ELSE SubSeq(s, k + 1, Len(s))

\* the literals of the code
sTrue == <<"t","r","u","e">>
sFalse == <<"f","a","l","s","e">>
sFinalAnswer == <<"F","i","n","a","l"," ","A","n","s","w","e","r">>
sFinalAnswerColon == sFinalAnswer \o <<":">>


(***************************************************************************)
(* Python values that travel through the loop: message content returned    *)
(* by a backend, prompts, queries.  One record shape for all of them.      *)
(***************************************************************************)
TextV(s) == [type |-> "str", text |-> s, keys |-> {}, status |-> FALSE, items |-> <<>>]
NoneV == [type |-> "None", text |-> <<>>, keys |-> {}, status |-> FALSE, items |-> <<>>]
\* an instance of GradeNode (status: bool)
GradeNodeV(b) == [type |-> "GradeNode", text |-> <<>>, keys |-> {}, status |-> b, items |-> <<>>]
\* a dict; ks are its keys, b the value under "status" when present
DictV(ks, b) == [type |-> "dict", text |-> <<>>, keys |-> ks, status |-> b, items |-> <<>>]
\* a list of role/content entries given as the query
ListV(L) == [type |-> "list", text |-> <<>>, keys |-> {}, status |-> FALSE, items |-> L]

\* Python truthiness, as in `if updates_res:`
Truthy(v) ==
    CASE v.type = "None" -> FALSE
      [] v.type = "str" -> Len(v.text) > 0
      [] v.type = "dict" -> v.keys # {}
      [] v.type = "list" -> Len(v.items) > 0
      [] OTHER -> TRUE

\* str(bool)
BoolText(b) == IF b THEN <<"T","r","u","e">> ELSE <<"F","a","l","s","e">>

\* the text an f-string renders for a value; a container's rendering is one chunk
Render(v) ==
    CASE v.type = "str" -> v.text
      [] v.type = "None" -> <<"N","o","n","e">>
      [] v.type = "GradeNode" -> <<"status=">> \o BoolText(v.status)
      [] v.type = "dict" ->
            IF v.keys = {"status"} THEN <<"{'status': ">> \o BoolText(v.status) \o <<"}">>
            ELSE IF v.keys = {} THEN <<"{}">> ELSE <<"{...}">>
      [] OTHER -> <<"[...]">>

(***************************************************************************)
(* Messages (maslibpy.messages): a record of role and content.  cls tells *)
(* UserMessage / AIMessage objects from raw role/content mappings         *)
(* ("dict") supplied by a caller.                                         *)
(***************************************************************************)
UserMessage(c) == [cls |-> "UserMessage", role |-> "user", content |-> c]
AIMessage(c) == [cls |-> "AIMessage", role |-> "assistant", content |-> c]
RawMessage(r, c) == [cls |-> "dict", role |-> r, content |-> c]

\* agent.system_prompt.format(query=q): the template with {query} substituted
SystemPromptFormat(q) == TextV(<<"<system_prompt ">> \o Render(q) \o <<" system_prompt>">>)

(***************************************************************************)
(* Outcome of one llm.invoke(messages, response_format, tools) followed by *)
(* res["choices"][0]["message"]["content"]: content, or an exception.      *)
(***************************************************************************)
\* An exception: its class and the text str(e) gives; NoError stands for no
\* exception.
Error(t, m) == [type |-> t, msg |-> m]
NoError == Error("none", <<>>)
\* type(v).__name__
TypeName(v) == IF v.type = "None" THEN "NoneType" ELSE v.type
\* the AttributeError of reading attribute attr of an object of class cls
AttributeErrorOn(cls, attr) ==
    Error("AttributeError", <<"'", cls, "' object has no attribute '", attr, "'">>)
\* the IndexError of query[-1] on an empty list
IndexErrorOnEmpty == Error("IndexError", <<"list index out of range">>)
\* the exception of the statement `raise Exception`
BareException == Error("Exception", <<>>)

Returns(v) == [kind |-> "return", content |-> v, err |-> NoError]
Raises(e) == [kind |-> "raise", content |-> NoneV, err |-> e]

\* an append that skips a message the history already holds
AppendOnFirstUse(messages, m) ==
    IF \E k \in 1..Len(messages) : messages[k] = m THEN messages
    ELSE Append(messages, m)

\* agent.messages.append(m)
AppendMessage(messages, m) == Append(messages, m)

\* an extend that puts the new entries in front of the history
ExtendFront(messages, items) == items \o messages

\* agent.messages.extend(query)
Extend(messages, items) == messages \o items

\* a query shape no branch handles is rejected with an exception
UnhandledRaises(messages, query) ==
    [messages |-> messages, query |-> query, raised |-> Error("TypeError", <<>>)]

\* a query shape no branch handles: no statement runs
Unhandled(messages, query) ==
    [messages |-> messages, query |-> query, raised |-> NoError]

\* update_chat_history(agent, query): the new agent.messages, the query
\* (a list query's last element may be replaced in place) and the exception
update_chat_history(messages, query) ==
    IF query.type = "str"
    THEN [messages |-> AppendMessage(messages, UserMessage(SystemPromptFormat(query))),
          query |-> query, raised |-> NoError]
    ELSE IF query.type = "list"
    THEN IF Len(query.items) = 0
         THEN [messages |-> messages, query |-> query, raised |-> IndexErrorOnEmpty]
         ELSE LET n == Len(query.items)
                  last == query.items[n]
              IN  IF last.cls = "UserMessage"
                  THEN [messages |-> Extend(messages, query.items),
                        query |-> query, raised |-> NoError]
                  ELSE IF last.cls = "dict"
                  THEN LET items2 ==
                               IF last.role = "user"
                               THEN [query.items EXCEPT
                                       ![n] = UserMessage(SystemPromptFormat(last.content))]
                               ELSE query.items
                       IN  [messages |-> Extend(messages, items2),
                            query |-> ListV(items2), raised |-> NoError]
                  ELSE Unhandled(messages, query)
    ELSE Unhandled(messages, query)

\* generate without its `if updates_res:` test: whatever the backend returned
\* is appended and returned
GenerateAfterUnchecked(u, out) ==
    IF u.raised # NoError
    THEN [messages |-> u.messages, query |-> u.query, ret |-> NoneV,
          raised |-> u.raised, called |-> FALSE, sent |-> <<>>]
    ELSE IF out.kind = "raise"
    THEN [messages |-> u.messages, query |-> u.query, ret |-> NoneV,
          raised |-> out.err, called |-> TRUE, sent |-> u.messages]
    ELSE [messages |-> Append(u.messages, AIMessage(out.content)),
          query |-> u.query, ret |-> out.content,
          raised |-> NoError, called |-> TRUE, sent |-> u.messages]

\* a generate that takes its user message back when the backend returns
\* nothing (for a query that appended one message)
GenerateAfterRollback(u, out) ==
    IF u.raised # NoError
    THEN [messages |-> u.messages, query |-> u.query, ret |-> NoneV,
          raised |-> u.raised, called |-> FALSE, sent |-> <<>>]
    ELSE IF out.kind = "raise"
    THEN [messages |-> u.messages, query |-> u.query, ret |-> NoneV,
          raised |-> out.err, called |-> TRUE, sent |-> u.messages]
    ELSE IF Truthy(out.content)
    THEN [messages |-> Append(u.messages, AIMessage(out.content)),
          query |-> u.query, ret |-> out.content,
          raised |-> NoError, called |-> TRUE, sent |-> u.messages]
    ELSE [messages |-> SubSeq(u.messages, 1, Len(u.messages) - 1),
          query |-> u.query, ret |-> NoneV,
          raised |-> NoError, called |-> TRUE, sent |-> u.messages]

\* generate after its update_chat_history call returned u: the flattening of
\* agent.messages, llm.invoke and the append of the reply
GenerateAfter(u, out) ==
    IF u.raised # NoError
    THEN [messages |-> u.messages, query |-> u.query, ret |-> NoneV,
          raised |-> u.raised, called |-> FALSE, sent |-> <<>>]
    ELSE IF \E k \in 1..Len(u.messages) : u.messages[k].cls = "dict"
    THEN \* msg.role on a raw mapping
         [messages |-> u.messages, query |-> u.query, ret |-> NoneV,
          raised |-> AttributeErrorOn("dict", "role"), called |-> FALSE, sent |-> <<>>]
    ELSE IF out.kind = "raise"
    THEN [messages |-> u.messages, query |-> u.query, ret |-> NoneV,
          raised |-> out.err, called |-> TRUE, sent |-> u.messages]
    ELSE IF Truthy(out.content)
    THEN [messages |-> Append(u.messages, AIMessage(out.content)),
          query |-> u.query, ret |-> out.content,
          raised |-> NoError, called |-> TRUE, sent |-> u.messages]
    ELSE [messages |-> u.messages, query |-> u.query, ret |-> NoneV,
          raised |-> NoError, called |-> TRUE, sent |-> u.messages]

\* generate(agent, llm, query, ...): out is what the backend does when called.
\* called tells whether llm.invoke was reached; ret is None when the content
\* is falsy (the function then falls off its end).
generate(messages, out, query) ==
    CHOOSE g \in {GenerateAfter(u, out) : u \in {update_chat_history(messages, query)}} :
        TRUE

(***************************************************************************)
(* Prompts built by f-strings: the fixed text is one chunk, the embedded   *)
(* values are rendered in place.                                           *)
(***************************************************************************)
critique_prompt(response, original_query) ==
    TextV(<<"Evaluate this response for \"">> \o Render(original_query)
          \o <<"\":">> \o Render(response)
          \o <<" Check: ... If accurate and complete, return exactly: ">>
          \o Render(response) \o <<" Otherwise, provide corrected version.">>)

grade_prompt(query, generated_response, critiqued_response) ==
    TextV(<<"You are a boolean evaluator ... - **User Query**: ">> \o Render(query)
          \o <<" - **Generated Response**: ">> \o Render(generated_response)
          \o <<" - **Critiqued Response**: ">> \o Render(critiqued_response)
          \o <<" Return exactly 'True' ... or the word 'False'.">>)

\* critique(agent, llm, response, original_query)
critique(messages, out, response, original_query) ==
    generate(messages, out, critique_prompt(response, original_query))

(***************************************************************************)
(* Capability flags of a backend object: an attribute may be absent.       *)
(***************************************************************************)
FlagValues == {"absent", "false", "true"}
Backend(srs, spfc) ==
    [supports_response_schema |-> srs, supports_parallel_function_calling |-> spfc]

\* hasattr(llm, f) and llm.f
Supports(flag) == flag # "absent" /\ flag = "true"

\* a structured-schema condition that reads both flags from the llm argument
UseResponseSchemaOfLlm(llm, critique_llm) ==
    /\ Supports(llm.supports_response_schema)
    /\ Supports(llm.supports_parallel_function_calling)

\* the condition of the structured-schema branch
UseResponseSchema(llm, critique_llm) ==
    /\ Supports(llm.supports_response_schema)
    /\ Supports(critique_llm.supports_parallel_function_calling)

\* the condition of the function-calling branch
UseFunctionCalling(llm) == Supports(llm.supports_parallel_function_calling)

\* the structured-schema branch returns: isinstance(grade_result, GradeNode)
IsGradeNode(r) == r.type = "GradeNode"

\* a function-calling branch that reads text the way the plain-text branch does
FunctionCallingVerdictStrict(r) ==
    IF r.type = "dict" /\ "status" \in r.keys THEN r.status
    ELSE IF r.type = "str" /\ StrIn(sTrue, StrLower(r.text))
                           /\ ~StrIn(sFalse, StrLower(r.text)) THEN TRUE
    ELSE FALSE

\* what the function-calling branch returns for grade_result r
FunctionCallingVerdict(r) ==
    IF r.type = "dict" /\ "status" \in r.keys THEN r.status
    ELSE IF r.type = "str" /\ StrIn(sTrue, StrLower(r.text)) THEN TRUE
    ELSE FALSE

\* a plain-text branch that does not look for "false"
PlainTextVerdictIgnoresFalse(text) == StrIn(sTrue, StrLower(StrStrip(text)))

\* what the plain-text branch returns for the text of grade_result
PlainTextVerdict(text) ==
    LET result_text == StrLower(StrStrip(text))
    IN  IF result_text = sTrue THEN TRUE
        ELSE IF StrIn(sTrue, result_text) /\ ~StrIn(sFalse, result_text) THEN TRUE
        ELSE FALSE

\* a structured-schema branch that always returns: False when the result is
\* no GradeNode
SchemaBranchExclusive(g1) ==
    [messages |-> g1.messages, raised |-> g1.raised,
     returned |-> g1.raised = NoError,
     ret |-> IsGradeNode(g1.ret) /\ g1.ret.status,
     strategies |-> IF g1.called THEN <<"structured">> ELSE <<>>,
     sent |-> g1.sent]

\* the structured-schema branch once its generate call returned g1: returned
\* tells whether grade returns from this branch
SchemaBranch(g1) ==
    [messages |-> g1.messages, raised |-> g1.raised,
     returned |-> g1.raised = NoError /\ IsGradeNode(g1.ret),
     ret |-> g1.ret.status,
     strategies |-> IF g1.called THEN <<"structured">> ELSE <<>>,
     sent |-> g1.sent]

\* grade up to the end of its first if statement
GradeFirst(messages, llm, critique_llm, prompt, out1) ==
    IF UseResponseSchema(llm, critique_llm)
    THEN CHOOSE f \in {SchemaBranch(g1) : g1 \in {generate(messages, out1, prompt)}} :
             TRUE
    ELSE [messages |-> messages, raised |-> NoError, returned |-> FALSE,
          ret |-> FALSE, strategies |-> <<>>, sent |-> <<>>]

\* the function-calling or plain-text branch once its generate call returned
\* g2; strategies lists the backend calls grade has made, in order
LastBranch(llm, first, g2) ==
    [messages |-> g2.messages,
     ret |-> IF g2.raised # NoError THEN FALSE
             ELSE IF UseFunctionCalling(llm) THEN FunctionCallingVerdict(g2.ret)
             ELSE IF g2.ret.type # "str" THEN FALSE
             ELSE PlainTextVerdict(g2.ret.text),
     raised |-> IF g2.raised # NoError THEN g2.raised
                ELSE IF UseFunctionCalling(llm) THEN NoError
                ELSE IF g2.ret.type # "str"
                THEN \* grade_result.strip() on None or another non-str value
                     AttributeErrorOn(TypeName(g2.ret), "strip")
                ELSE NoError,
     strategies |-> first.strategies \o
                      (IF ~g2.called THEN <<>>
                       ELSE IF UseFunctionCalling(llm) THEN <<"function">>
                       ELSE <<"plain">>),
     sent |-> IF g2.called THEN g2.sent ELSE first.sent]

\* grade from the end of its first if statement
GradeRest(llm, prompt, first, out2) ==
    IF first.raised # NoError \/ first.returned
    THEN [messages |-> first.messages, ret |-> first.ret, raised |-> first.raised,
          strategies |-> first.strategies, sent |-> first.sent]
    ELSE CHOOSE r \in {LastBranch(llm, first, g2) :
                         g2 \in {generate(first.messages, out2, prompt)}} : TRUE

\* grade once its prompt is built
GradeWith(messages, llm, critique_llm, prompt, out1, out2) ==
    CHOOSE r \in {GradeRest(llm, prompt, first, out2) :
                    first \in {GradeFirst(messages, llm, critique_llm, prompt, out1)}} :
        TRUE

\* grade(agent, llm, query, generated_response, critiqued_response).
\* out1 is what the backend does on the structured-schema call (when that
\* branch is taken), out2 what it does on the function-calling or plain call.
grade(messages, llm, critique_llm, query, generated_response, critiqued_response, out1, out2) ==
    CHOOSE r \in {GradeWith(messages, llm, critique_llm, prompt, out1, out2) :
                    prompt \in {grade_prompt(query, generated_response,
                                             critiqued_response)}} : TRUE

(***************************************************************************)
(* Inputs explored.                                                        *)
(***************************************************************************)
sFour == <<"4">>
sTrueCap == <<"T","r","u","e">>
sFalseCap == <<"F","a","l","s","e">>
\* exceptions a backend call may raise
BackendErrors ==
    {Error("TimeoutError", <<"timed out after 30s">>), Error("RateLimitError", <<>>)}

\* what the generator backend may do on a generate step
GeneratorOutcomes ==
    {Returns(TextV(sFour)), Returns(TextV(sFinalAnswerColon \o <<" ">> \o sFour)),
     Returns(TextV(<<>>)), Returns(NoneV)}
    \cup {Raises(e) : e \in BackendErrors}

\* what the critic backend may do on a critique step
CritiqueOutcomes ==
    {Returns(TextV(sFour)), Returns(TextV(<<>>))} \cup {Raises(e) : e \in BackendErrors}

\* what the critic backend may do on the structured-schema call of grade
SchemaOutcomes ==
    {Returns(GradeNodeV(TRUE)), Returns(GradeNodeV(FALSE)), Returns(TextV(sTrueCap)),
     Returns(NoneV)}
    \cup {Raises(e) : e \in BackendErrors}

\* what the critic backend may do on the function-calling or plain call of grade
GradeOutcomes ==
    {Returns(TextV(sTrueCap)), Returns(TextV(sFalseCap)), Returns(NoneV),
     Returns(DictV({"status"}, TRUE))}
    \cup {Raises(e) : e \in BackendErrors}

\* the query given to invoke
Queries == {TextV(<<"What is 2+2?">>)}

(***************************************************************************)
(* State.                                                                  *)
(***************************************************************************)
VARIABLES
    max_iterations,      \* agent.max_iterations
    critique_llm,        \* capability flags of agent.critique_llm
    llm,                 \* capability flags of the llm argument of grade
    messages,            \* agent.messages, the conversation state
    query,               \* the query argument of invoke (also actual_query)
    pc,                  \* where invoke stands
    i,                   \* the loop variable of invoke; -1 before the first cycle
    res,                 \* the trace text of invoke
    generated_response,  \* local of invoke
    critiqued_response,  \* local of invoke
    grade_output,        \* local of invoke
    result,              \* what the caller of invoke observes: return or exception
    file,                \* the trace file: number of writes and last content
    calls,               \* the backend calls made so far, in order
    last_grade,          \* arguments and result of the latest grade call
    sent,                \* the flattened history of the latest llm.invoke call
    invocation,          \* how many times invoke has been called on the agent
    base                 \* len(agent.messages) when the current invoke was called

vars == <<max_iterations, critique_llm, llm, messages, query, pc, i, res,
          generated_response, critiqued_response, grade_output, result, file,
          calls, last_grade, sent, invocation, base>>

Pending == [kind |-> "pending", content |-> NoneV, err |-> NoError]
NoGrade == [made |-> FALSE, out1 |-> Pending, out2 |-> Pending, ret |-> FALSE,
            raised |-> NoError, strategies |-> <<>>]
Call(backend, step, cycle, strategy, out) ==
    [llm |-> backend, step |-> step, cycle |-> cycle, strategy |-> strategy,
     content |-> out.content, raised |-> out.err]

\* the state of an agent before invoke: locals unbound, nothing observed
Fresh ==
    /\ messages = <<>>
    /\ i = -1
    /\ res = <<>>
    /\ generated_response = NoneV
    /\ critiqued_response = NoneV
    /\ grade_output = FALSE
    /\ result = Pending
    /\ file = [writes |-> 0, content |-> <<>>]
    /\ calls = <<>>
    /\ last_grade = NoGrade
    /\ sent = <<>>
    /\ invocation = 0
    /\ base = 0

Init ==
    /\ max_iterations \in 1..MaxIterations
    /\ critique_llm \in {Backend(a, b) : a \in FlagValues, b \in FlagValues}
    /\ llm = critique_llm
    /\ query \in Queries
    /\ pc = "idle"
    /\ Fresh

(***************************************************************************)
(* PromptBased.invoke, one action per step between backend calls.          *)
(***************************************************************************)
\* a cut that also strips the white space around the answer
FinalAnswerCutStripped(text) ==
    LET ind == StrRfind(text, sFinalAnswer)
    IN  IF ind >= 0 THEN StrStrip(StrFrom(text, ind + Len(sFinalAnswerColon))) ELSE text

\* the "Final Answer" cut of invoke
FinalAnswerCut(text) ==
    LET ind == StrRfind(text, sFinalAnswer)
    IN  IF ind >= 0 THEN StrFrom(text, ind + Len(sFinalAnswerColon)) ELSE text

\* an epoch header numbered by the loop variable itself
EpochHeaderZeroBased(n) == <<"===== Epoch ", ToString(n - 1), " =====\n\n">>

\* the pieces appended to the trace
EpochHeader(n) == <<"===== Epoch ", ToString(n), " =====\n\n">>
GeneratedEntry(v) == <<"**Generated Response**:\n\n">> \o Render(v) \o <<"\n\n">>
CritiquedEntry(v) == <<"\n\n**Critiqued Response**:\n\n">> \o Render(v) \o <<"\n\n">>
GradeEntry(b) == <<"\n\n**Grade node output**\n\n">> \o BoolText(b)
Separator == <<"=" , "*100", "\n\n">>
\* str(e)
ErrorText(e) == e.msg
ErrorEntry(e, n) ==
    <<"\n\n**Error occurred ">> \o ErrorText(e) \o <<" in iteration ", ToString(n), "**\n\n">>
FinalEntry(v) == <<"\n\n**Final Output**:\n\n">> \o Render(v)
TimeEntry == <<"\n\nResponse Time:", "<elapsed>", " seconds">>

\* a for statement running one cycle too many
LoopContinuesOffByOne(n, N) == n <= N

\* the for statement: whether a cycle follows cycle n
LoopContinues(n, N) == n < N

\* a loop left after its first grade, whatever the grade
BreaksAlways(output) == TRUE

\* a loop never left on acceptance
BreaksNever(output) == FALSE

\* line 34: whether the loop is left after this grade
Breaks(output) == output

\* an except clause that leaves the loop without raising again
HandlerBreaks(e, trace, n) ==
    /\ res' = trace \o ErrorEntry(e, n)
    /\ UNCHANGED result
    /\ pc' = "finish"

\* the except clause: record the error in the trace and raise it again
Handler(e, trace, n) ==
    /\ res' = trace \o ErrorEntry(e, n)
    /\ result' = Raises(e)
    /\ pc' = "raised"

\* an invoke that starts from an empty conversation state
InvokeFresh ==
    /\ pc = "idle"
    /\ pc' = "generate"
    /\ res' = <<>>
    /\ i' = -1
    /\ invocation' = invocation + 1
    /\ messages' = <<>>
    /\ base' = 0
    /\ UNCHANGED <<max_iterations, critique_llm, llm, query, generated_response,
                   critiqued_response, grade_output, result, file, calls,
                   last_grade, sent>>

\* invoke is called: the locals before the loop
Invoke ==
    /\ pc = "idle"
    /\ pc' = "generate"
    /\ res' = <<>>
    /\ i' = -1
    /\ invocation' = invocation + 1
    /\ base' = Len(messages)
    /\ UNCHANGED <<max_iterations, critique_llm, llm, messages, query,
                   generated_response, critiqued_response, grade_output, result,
                   file, calls, last_grade, sent>>

\* lines 19-27 and the except clause, g being what generate did in cycle n
AfterGenerate(g, n, out) ==
    /\ messages' = g.messages
    /\ query' = g.query
    /\ sent' = (IF g.called THEN g.sent ELSE sent)
    /\ calls' = calls \o (IF g.called
                          THEN <<Call("generator", "generate", n, "none", out)>>
                          ELSE <<>>)
    /\ IF g.raised # NoError
       THEN /\ Handler(g.raised, res, n)
            /\ UNCHANGED generated_response
       ELSE IF g.ret.type = "None"
       THEN /\ generated_response' = TextV(<<>>)
            /\ Handler(BareException, res \o EpochHeader(n) \o GeneratedEntry(g.ret), n)
       ELSE IF g.ret.type # "str"
       THEN \* generated_response.rfind on a non-str value
            /\ generated_response' = g.ret
            /\ Handler(AttributeErrorOn(TypeName(g.ret), "rfind"),
                       res \o EpochHeader(n) \o GeneratedEntry(g.ret), n)
       ELSE /\ generated_response' = TextV(FinalAnswerCut(g.ret.text))
            /\ res' = res \o EpochHeader(n) \o GeneratedEntry(g.ret)
            /\ pc' = "critique"
            /\ UNCHANGED result

\* a cycle starts: the generate step and the Final Answer cut
LoopGenerate(out) ==
    /\ pc = "generate"
    /\ i' = i + 1
    /\ \E g \in {generate(messages, out, query)} : AfterGenerate(g, i + 2, out)
    /\ UNCHANGED <<max_iterations, critique_llm, llm, critiqued_response,
                   grade_output, file, last_grade, invocation, base>>

\* line 31 and the except clause, c being what critique did in cycle n
AfterCritique(c, n, out) ==
    /\ messages' = c.messages
    /\ sent' = (IF c.called THEN c.sent ELSE sent)
    /\ calls' = calls \o (IF c.called
                          THEN <<Call("critic", "critique", n, "none", out)>>
                          ELSE <<>>)
    /\ IF c.raised # NoError
       THEN /\ Handler(c.raised, res, n)
            /\ UNCHANGED critiqued_response
       ELSE /\ critiqued_response' = c.ret
            /\ res' = res \o CritiquedEntry(c.ret)
            /\ pc' = "grade"
            /\ UNCHANGED result

\* the critique step
LoopCritique(out) ==
    /\ pc = "critique"
    /\ \E c \in {critique(messages, out, generated_response, query)} :
          AfterCritique(c, i + 1, out)
    /\ UNCHANGED <<max_iterations, critique_llm, llm, query, i, generated_response,
                   grade_output, file, last_grade, invocation, base>>

\* the outcomes to choose from for the structured-schema call of a grade call:
\* none when that call is not made
SchemaOutcomesFor(l, c) == IF UseResponseSchema(l, c) THEN SchemaOutcomes ELSE {Pending}

\* the backend calls of one grade call, as entries of the call log
GradeCalls(strategies, n, out1, out2) ==
    [k \in 1..Len(strategies) |->
        Call("critic", "grade", n, strategies[k],
             IF strategies[k] = "structured" THEN out1 ELSE out2)]

\* the record kept of a grade call
GradeRecord(gr, out1, out2) ==
    [made |-> TRUE,
     out1 |-> IF \E k \in 1..Len(gr.strategies) : gr.strategies[k] = "structured"
              THEN out1 ELSE Pending,
     out2 |-> IF \E k \in 1..Len(gr.strategies) : gr.strategies[k] # "structured"
              THEN out2 ELSE Pending,
     ret |-> gr.ret, raised |-> gr.raised, strategies |-> gr.strategies]

\* lines 33-38 and the except clause, gr being what grade did in cycle n
AfterGrade(gr, n, out1, out2) ==
    /\ messages' = gr.messages
    /\ sent' = (IF gr.strategies # <<>> THEN gr.sent ELSE sent)
    /\ calls' = calls \o GradeCalls(gr.strategies, n, out1, out2)
    /\ last_grade' = GradeRecord(gr, out1, out2)
    /\ IF gr.raised # NoError
       THEN /\ Handler(gr.raised, res, n)
            /\ UNCHANGED grade_output
       ELSE /\ grade_output' = gr.ret
            /\ UNCHANGED result
            /\ IF Breaks(gr.ret)
               THEN /\ res' = res \o GradeEntry(gr.ret)
                    /\ pc' = "finish"
               ELSE /\ res' = res \o GradeEntry(gr.ret) \o Separator
                    /\ pc' = IF LoopContinues(n, max_iterations) THEN "generate"
                                                                ELSE "finish"

\* the grade step, the break on acceptance and the end of the cycle
LoopGrade(out1, out2) ==
    /\ pc = "grade"
    /\ \E gr \in {grade(messages, critique_llm, critique_llm, query,
                         generated_response, critiqued_response, out1, out2)} :
          AfterGrade(gr, i + 1, out1, out2)
    /\ UNCHANGED <<max_iterations, critique_llm, llm, query, i, generated_response,
                   critiqued_response, file, invocation, base>>

\* after the loop: the final entries, the trace file, the return
Finish ==
    /\ pc = "finish"
    /\ res' = res \o FinalEntry(generated_response) \o TimeEntry
    /\ file' = [writes |-> file.writes + 1, content |-> res']
    /\ result' = Returns(generated_response)
    /\ pc' = "done"
    /\ UNCHANGED <<max_iterations, critique_llm, llm, messages, query, i,
                   generated_response, critiqued_response, grade_output, calls,
                   last_grade, sent, invocation, base>>

Next ==
    \/ Invoke
    \/ \E out \in GeneratorOutcomes : LoopGenerate(out)
    \/ \E out \in CritiqueOutcomes : LoopCritique(out)
    \/ \E out1 \in SchemaOutcomesFor(critique_llm, critique_llm), out2 \in GradeOutcomes :
          LoopGrade(out1, out2)
    \/ Finish

Spec == Init /\ [][Next]_vars

\* every step of invoke that can be taken is taken: the code runs on
FairSpec == Spec /\ WF_vars(Next)

(***************************************************************************)
(* Properties of invoke (specification Spec).                              *)
(***************************************************************************)
\* positions in the call log of the backend calls of a step
CallsOf(step) == {k \in 1..Len(calls) : calls[k].step = step}
\* the cycles in which a step called a backend
CyclesOf(step) == {calls[k].cycle : k \in CallsOf(step)}
\* the text the generator backend returned in cycle n
GeneratedIn(n) ==
    LET k == CHOOSE j \in CallsOf("generate") : calls[j].cycle = n
    IN  calls[k].content.text
\* the loop is over, by break or by exhaustion
LoopLeft == pc \in {"finish", "done"}

\* C1: when no cycle is accepted, invoke runs exactly max_iterations
\* generate/critique/grade cycles and returns the generated response of the
\* last one.
C1_ExhaustionRunsAllCycles ==
    (LoopLeft /\ ~grade_output) =>
        /\ i + 1 = max_iterations
        /\ CyclesOf("generate") = 1..max_iterations
        /\ CyclesOf("critique") = 1..max_iterations
        /\ CyclesOf("grade") = 1..max_iterations
        /\ Cardinality(CallsOf("generate")) = max_iterations
        /\ Cardinality(CallsOf("critique")) = max_iterations
        /\ (pc = "done" =>
              result = Returns(TextV(FinalAnswerCut(GeneratedIn(max_iterations)))))

C1_Witness ==
    /\ pc = "done"
    /\ ~grade_output
    /\ max_iterations = 2
    /\ result.kind = "return"
    /\ GeneratedIn(1) # GeneratedIn(2)

\* C2: when grade is true in cycle k, the loop stops there: k cycles have run,
\* the accepting grade call is the last backend call, and the generated
\* response of cycle k is returned.  A true grade is never followed by a
\* further step of the loop.
C2_AcceptanceStopsLoop ==
    /\ grade_output => LoopLeft
    /\ (LoopLeft /\ grade_output) =>
          /\ i + 1 <= max_iterations
          /\ CyclesOf("generate") = 1..(i + 1)
          /\ CyclesOf("critique") = 1..(i + 1)
          /\ CyclesOf("grade") = 1..(i + 1)
          /\ Cardinality(CallsOf("generate")) = i + 1
          /\ Cardinality(CallsOf("critique")) = i + 1
          /\ calls[Len(calls)].step = "grade"
          /\ calls[Len(calls)].cycle = i + 1
          /\ (pc = "done" => result = Returns(TextV(FinalAnswerCut(GeneratedIn(i + 1)))))

C2_Witness ==
    /\ pc = "done"
    /\ grade_output
    /\ i + 1 < max_iterations
    /\ result.kind = "return"

\* C3: a backend call that raises is the last backend call of the invoke: the
\* loop is over, the caller observes that very exception, and nothing is
\* returned.
C3_FailFast ==
    \A k \in 1..Len(calls) :
        calls[k].raised # NoError =>
            /\ k = Len(calls)
            /\ pc = "raised"
            /\ result = Raises(calls[k].raised)
            /\ file.writes = 0

C3_Witness ==
    /\ pc = "raised"
    /\ Len(calls) > 0
    /\ calls[Len(calls)].raised.type = "RateLimitError"
    /\ calls[Len(calls)].step = "critique"
    /\ calls[Len(calls)].cycle = 2

\* C4: a generate step whose backend call yields no content (None or the
\* empty text) fails the invoke: it is the last backend call (no critique, no
\* grade, no further cycle) and the caller observes an exception, not a
\* returned text.
C4_EmptyGenerationFails ==
    \A k \in CallsOf("generate") :
        (/\ calls[k].raised = NoError
         /\ \/ calls[k].content.type = "None"
            \/ calls[k].content.type = "str" /\ calls[k].content.text = <<>>)
        =>  /\ k = Len(calls)
            /\ pc = "raised"
            /\ result = Raises(BareException)
            /\ calls[k].cycle \notin CyclesOf("critique") \cup CyclesOf("grade")

C4_Witness ==
    /\ pc = "raised"
    /\ Len(calls) > 0
    /\ calls[Len(calls)].step = "generate"
    /\ calls[Len(calls)].raised = NoError
    /\ calls[Len(calls)].content = TextV(<<>>)
    /\ calls[Len(calls)].cycle = 2

\* the three ways an invoke ends
Accepted == pc = "done" /\ result.kind = "return" /\ grade_output
Exhausted ==
    /\ pc = "done" /\ result.kind = "return" /\ ~grade_output
    /\ CyclesOf("grade") = 1..max_iterations
Failed == pc = "raised" /\ result.kind = "raise"
Ended == pc \in {"done", "raised"}

\* C5: every invoke ends, in exactly one of accepted, exhausted and failed,
\* and never starts more than max_iterations cycles.
C5_EndsInOneOutcome ==
    /\ <>Ended
    /\ [](Ended => /\ Accepted \/ Exhausted \/ Failed
                   /\ ~(Accepted /\ Exhausted)
                   /\ ~(Accepted /\ Failed)
                   /\ ~(Exhausted /\ Failed))
    /\ [](i + 1 <= max_iterations /\ CyclesOf("generate") \subseteq 1..max_iterations)

C5_Witness ==
    /\ Failed
    /\ i + 1 = max_iterations
    /\ max_iterations = 2
    /\ calls[Len(calls)].step = "grade"

(***************************************************************************)
(* grade called on its own, with an llm argument that need not be the      *)
(* agent's critique_llm, over replies built from a few tokens.             *)
(***************************************************************************)
Tokens ==
    {sTrueCap, sTrue, sFalse, <<".">>, <<"I"," ","t","h","i","n","k"," ">>,
     <<" ","o","r"," ">>, <<"\n">>}

RECURSIVE TokenTexts(_)
\* the texts made of at most n tokens
TokenTexts(n) ==
    IF n = 0 THEN {<<>>}
    ELSE TokenTexts(n - 1) \cup {t \o tok : t \in TokenTexts(n - 1), tok \in Tokens}

\* what the backend may do on the function-calling or plain call
ReplyOutcomes ==
    {Returns(TextV(t)) : t \in TokenTexts(MaxTokens)}
    \cup {Returns(NoneV), Returns(GradeNodeV(TRUE)),
          Returns(DictV({"status"}, TRUE)), Returns(DictV({"status"}, FALSE)),
          Returns(DictV({"other"}, FALSE)), Returns(DictV({}, FALSE))}
    \cup {Raises(e) : e \in BackendErrors}

InitGrade ==
    /\ max_iterations = 1
    /\ critique_llm \in {Backend("absent", b) : b \in FlagValues}
    /\ llm \in {Backend(a, b) : a \in FlagValues, b \in FlagValues}
    /\ query \in Queries
    /\ pc = "grade_call"
    /\ messages = <<>>
    /\ i = -1
    /\ res = <<>>
    /\ generated_response = TextV(sFour)
    /\ critiqued_response = TextV(sFour)
    /\ grade_output = FALSE
    /\ result = Pending
    /\ file = [writes |-> 0, content |-> <<>>]
    /\ calls = <<>>
    /\ last_grade = NoGrade
    /\ sent = <<>>
    /\ invocation = 0
    /\ base = 0

\* what a grade call leaves behind, gr being what grade did
AfterGradeCall(gr, out1, out2) ==
    /\ messages' = gr.messages
    /\ sent' = (IF gr.strategies # <<>> THEN gr.sent ELSE sent)
    /\ calls' = calls \o GradeCalls(gr.strategies, 0, out1, out2)
    /\ last_grade' = GradeRecord(gr, out1, out2)

\* grade(agent, llm, query, generated_response, critiqued_response) is called
GradeCall(out1, out2) ==
    /\ pc = "grade_call"
    /\ pc' = "graded"
    /\ \E gr \in {grade(messages, llm, critique_llm, query, generated_response,
                         critiqued_response, out1, out2)} :
          AfterGradeCall(gr, out1, out2)
    /\ UNCHANGED <<max_iterations, critique_llm, llm, query, i, res,
                   generated_response, critiqued_response, grade_output, result,
                   file, invocation, base>>

NextGrade ==
    \E out1 \in SchemaOutcomesFor(llm, critique_llm), out2 \in ReplyOutcomes :
        GradeCall(out1, out2)

GradeSpec == InitGrade /\ [][NextGrade]_vars
(***************************************************************************)
(* Properties of grade (specification GradeSpec).                          *)
(***************************************************************************)
\* the grade call has been made and its last backend call used strategy st
LastStrategy(st) ==
    /\ last_grade.made
    /\ Len(last_grade.strategies) > 0
    /\ last_grade.strategies[Len(last_grade.strategies)] = st
\* the flags select the structured-schema strategy
SchemaSelected ==
    /\ llm.supports_response_schema = "true"
    /\ critique_llm.supports_parallel_function_calling = "true"
\* the structured-schema call returned something that is no GradeNode
SchemaResultUnstructured ==
    /\ SchemaSelected
    /\ last_grade.out1.kind = "return"
    /\ last_grade.out1.content.type # "GradeNode"
sThinkTrue == <<"I"," ","t","h","i","n","k"," ">> \o sTrue
sFalseDot == sFalse \o <<".">>
sTrueOrFalse == sTrue \o <<" ","o","r"," ">> \o sFalse

\* C6 as stated: one grade call uses exactly one strategy and invokes the
\* critic backend exactly once.
C6_ExactlyOneStrategy ==
    last_grade.made => Len(last_grade.strategies) = 1

\* C6 amended: one grade call uses exactly one strategy and one backend call,
\* except when the structured-schema call returned something that is no
\* structured object: grade then makes a second backend call, with the
\* function-calling strategy if the llm supports parallel function calling
\* and the plain-text strategy otherwise.
C6_OneStrategyOrFallThrough ==
    last_grade.made =>
        /\ Len(last_grade.strategies) = IF SchemaResultUnstructured THEN 2 ELSE 1
        /\ SchemaResultUnstructured =>
              last_grade.strategies =
                  <<"structured",
                    IF llm.supports_parallel_function_calling = "true"
                    THEN "function" ELSE "plain">>
        /\ (SchemaSelected /\ ~SchemaResultUnstructured) =>
              last_grade.strategies = <<"structured">>
        /\ ~SchemaSelected => last_grade.strategies[1] \in {"function", "plain"}

C6_Witness ==
    /\ last_grade.made
    /\ last_grade.strategies = <<"structured", "plain">>
    /\ last_grade.out1 = Returns(TextV(sTrueCap))
    /\ last_grade.raised = NoError

\* C7: the first strategy of a grade call follows the flags in fixed
\* priority (structured-schema, function-calling, plain-text), an absent flag
\* counting as unsupported and raising nothing; a GradeNode result of the
\* structured-schema call is answered with its status.
C7_StrategyByFlags ==
    last_grade.made =>
        /\ (last_grade.strategies[1] = "structured") <=> SchemaSelected
        /\ ~SchemaSelected =>
              /\ (last_grade.strategies[1] = "function")
                    <=> llm.supports_parallel_function_calling = "true"
              /\ (last_grade.strategies[1] = "plain")
                    <=> llm.supports_parallel_function_calling # "true"
        /\ (/\ SchemaSelected
            /\ last_grade.out1.kind = "return"
            /\ last_grade.out1.content.type = "GradeNode")
           => /\ last_grade.raised = NoError
              /\ last_grade.ret = last_grade.out1.content.status
              /\ last_grade.strategies = <<"structured">>
        /\ last_grade.raised # NoError =>
              \/ last_grade.raised \in {last_grade.out1.err, last_grade.out2.err}
              \/ /\ LastStrategy("plain")
                 /\ last_grade.raised.type = "AttributeError"
                 /\ \/ last_grade.out2.content.type # "str"
                    \/ last_grade.out2.content.text = <<>>

C7_Witness ==
    /\ last_grade.made
    /\ llm = Backend("true", "absent")
    /\ critique_llm.supports_parallel_function_calling = "true"
    /\ last_grade.out1 = Returns(GradeNodeV(TRUE))
    /\ last_grade.strategies = <<"structured">>
    /\ last_grade.ret

\* C8: on the plain-text strategy a non-empty reply text is graded true iff,
\* trimmed and lowercased, it is "true" or contains "true" and not "false".
C8_PlainTextRule ==
    (/\ LastStrategy("plain")
     /\ last_grade.out2.kind = "return"
     /\ last_grade.out2.content.type = "str"
     /\ last_grade.out2.content.text # <<>>)
    => LET text == last_grade.out2.content.text
           norm == StrLower(StrStrip(text))
       IN  /\ last_grade.raised = NoError
           /\ last_grade.ret <=>
                 \/ norm = <<"t","r","u","e">>
                 \/ StrIn(<<"t","r","u","e">>, norm)
                    /\ ~StrIn(<<"f","a","l","s","e">>, norm)
           /\ text = sTrueCap => last_grade.ret
           /\ text = sFalseDot => ~last_grade.ret
           /\ text = sThinkTrue => last_grade.ret
           /\ text = sTrueOrFalse => ~last_grade.ret

C8_Witness ==
    /\ LastStrategy("plain")
    /\ last_grade.out2 = Returns(TextV(sTrueOrFalse))
    /\ last_grade.raised = NoError
    /\ ~last_grade.ret

\* C9: on the plain-text strategy a reply that contains neither "true" nor
\* "false", or both, the empty reply included, is graded false and raises
\* nothing.
C9_AmbiguityIsFalse ==
    (/\ LastStrategy("plain")
     /\ last_grade.out2.kind = "return"
     /\ last_grade.out2.content.type = "str"
     /\ LET norm == StrLower(last_grade.out2.content.text)
        IN  StrIn(<<"t","r","u","e">>, norm) <=> StrIn(<<"f","a","l","s","e">>, norm))
    => /\ last_grade.raised = NoError
       /\ ~last_grade.ret

\* C10: on the function-calling strategy grade answers with the status entry
\* of a mapping that has one, else true for a text containing "true" in any
\* letter case, else false (also for an absent result), and raises nothing.
C10_FunctionCallingRule ==
    (/\ LastStrategy("function")
     /\ last_grade.out2.kind = "return")
    => LET r == last_grade.out2.content
       IN  /\ last_grade.raised = NoError
           /\ last_grade.ret <=>
                 IF r.type = "dict" /\ "status" \in r.keys THEN r.status
                 ELSE r.type = "str" /\ StrIn(<<"t","r","u","e">>, StrLower(r.text))
           /\ r = TextV(sTrueOrFalse) => last_grade.ret
           /\ r.type \in {"None", "GradeNode"} => ~last_grade.ret

C10_Witness ==
    /\ LastStrategy("function")
    /\ last_grade.out2 = Returns(TextV(sTrueOrFalse))
    /\ last_grade.raised = NoError
    /\ last_grade.ret

(***************************************************************************)
(* The trace of invoke (specification Spec).                               *)
(***************************************************************************)
\* p is a prefix of s
IsPrefix(p, s) == Len(p) <= Len(s) /\ SubSeq(s, 1, Len(p)) = p
\* the positions of the trace holding the fixed text chunk
ChunksAt(trace, chunk) == {k \in 1..Len(trace) : trace[k] = chunk}
\* the trace holds an error entry
ErrorLogged(trace) == ChunksAt(trace, "\n\n**Error occurred ") # {}

\* C11: the trace file is written at most once per invoke, only after the
\* loop was left by acceptance or exhaustion and after the last backend call;
\* an invoke that fails writes no file, so the trace holding the error entry
\* is never persisted.
C11_TraceWrittenOnceAfterLoop ==
    /\ [](/\ file.writes <= 1
          /\ (file.writes = 1 =>
                /\ pc = "done"
                /\ result.kind = "return"
                /\ grade_output \/ i + 1 = max_iterations
                /\ file.content = res)
          /\ (ErrorLogged(res) => file.writes = 0 /\ file.content = <<>>)
          /\ (result.kind = "raise" => ErrorLogged(res) /\ file.writes = 0))
    /\ [][(file' # file \/ file.writes > 0) => calls' = calls]_vars

C11_Witness ==
    /\ pc = "raised"
    /\ i = 1
    /\ ErrorLogged(res)
    /\ ChunksAt(res, "===== Epoch ") # {}
    /\ file.writes = 0


\* the fixed texts opening the entries of a cycle, and the entries in order
sEpoch == "===== Epoch "
sGenerated == "**Generated Response**:\n\n"
sCritiqued == "\n\n**Critiqued Response**:\n\n"
sGrade == "\n\n**Grade node output**\n\n"
IsCycleMarker(chunk) == chunk \in {sEpoch, sGenerated, sCritiqued, sGrade}
CycleMarkers(trace) == SelectSeq(trace, IsCycleMarker)
\* the marker that must precede marker m inside the trace
MarkerBefore(m) ==
    IF m = sGenerated THEN sEpoch
    ELSE IF m = sCritiqued THEN sGenerated
    ELSE IF m = sGrade THEN sCritiqued
    ELSE sGrade
\* the numbers of the epoch headers of the trace, in order
EpochNumbers(trace) ==
    LET at == {k \in 1..Len(trace) : trace[k] = sEpoch}
    IN  [j \in 1..Cardinality(at) |->
            trace[1 + CHOOSE k \in at : Cardinality({h \in at : h <= k}) = j]]
\* the cycles whose generate call came back
CyclesGenerated ==
    {calls[k].cycle : k \in {j \in CallsOf("generate") : calls[j].raised = NoError}}
\* s ends with the text t
EndsWith(s, t) == Len(t) <= Len(s) /\ SubSeq(s, Len(s) - Len(t) + 1, Len(s)) = t

\* C12: the trace is append-only and in execution order: every step of invoke
\* keeps the earlier trace as a prefix of the later one; the epoch entries are
\* numbered 1, 2, ... in the order the cycles ran, each with its generated
\* response before its critiqued response before its grade output; and when
\* cycle i raises, the trace ends with an error entry naming iteration i by
\* the time the error is propagated.
C12_TraceAppendOnlyInOrder ==
    /\ [][IsPrefix(res, res')]_vars
    /\ [](/\ EpochNumbers(res) = [j \in 1..Cardinality(CyclesGenerated) |-> ToString(j)]
          /\ \A k \in 1..Len(CycleMarkers(res)) :
                IF k = 1 THEN CycleMarkers(res)[k] = sEpoch
                ELSE CycleMarkers(res)[k - 1] = MarkerBefore(CycleMarkers(res)[k])
          /\ (result.kind = "raise" =>
                EndsWith(res, <<" in iteration ", ToString(i + 1), "**\n\n">>)))

C12_Witness ==
    /\ pc = "raised"
    /\ i = 1
    /\ EpochNumbers(res) = <<"1", "2">>
    /\ CycleMarkers(res)[Len(CycleMarkers(res))] = sCritiqued
    /\ EndsWith(res, ErrorEntry(Error("RateLimitError", <<>>), 2))


(***************************************************************************)
(* update_chat_history and generate called directly, in any order, with    *)
(* string and list queries (specification HistorySpec).                    *)
(***************************************************************************)
\* calls are made while the history is shorter than this, and generate is
\* called while it has made fewer backend calls than this
MaxHistory == 3

\* the query as a formatted user message, a raw user mapping, replies
qUser == UserMessage(SystemPromptFormat(TextV(<<"What is 2+2?">>)))
qRawUser == RawMessage("user", TextV(<<"What is 2+2?">>))
qRawAssistant == RawMessage("assistant", TextV(sFour))
qReply == AIMessage(TextV(sFour))

\* the list queries explored: empty, ending with a UserMessage, with a user
\* mapping, with an assistant mapping, with an AIMessage object
HistoryLists ==
    {<<>>, <<qUser>>, <<qReply, qRawUser>>, <<qUser, qRawAssistant>>, <<qUser, qReply>>}
HistoryQueries == Queries \cup {ListV(items) : items \in HistoryLists}
\* what the backend may do when generate is called directly
HistoryOutcomes == {Returns(TextV(sFour)), Returns(TextV(<<>>)), Raises(Error("TimeoutError", <<"timed out after 30s">>))}

InitHistory ==
    /\ max_iterations = 1
    /\ critique_llm = Backend("absent", "absent")
    /\ llm = critique_llm
    /\ query \in Queries
    /\ pc = "history"
    /\ Fresh

\* what the caller of a direct call observes
Observed(raised, ret) == IF raised # NoError THEN Raises(raised) ELSE Returns(ret)

\* update_chat_history(agent, q) is called
UpdateCall(q) ==
    /\ pc \in {"history", "updated", "generated"}
    /\ Len(messages) < MaxHistory
    /\ pc' = "updated"
    /\ \E u \in {update_chat_history(messages, q)} :
          /\ messages' = u.messages
          /\ query' = u.query
          /\ result' = Observed(u.raised, NoneV)
    /\ UNCHANGED <<max_iterations, critique_llm, llm, i, res, generated_response,
                   critiqued_response, grade_output, file, calls, last_grade, sent,
                   invocation, base>>

\* generate(agent, llm, q) is called
GenerateCall(q, out) ==
    /\ pc \in {"history", "updated", "generated"}
    /\ Len(messages) < MaxHistory
    /\ Len(calls) < MaxHistory
    /\ pc' = "generated"
    /\ \E g \in {generate(messages, out, q)} :
          /\ messages' = g.messages
          /\ query' = g.query
          /\ sent' = (IF g.called THEN g.sent ELSE sent)
          /\ calls' = calls \o (IF g.called
                                THEN <<Call("generator", "generate", 0, "none", out)>>
                                ELSE <<>>)
          /\ result' = Observed(g.raised, g.ret)
    /\ UNCHANGED <<max_iterations, critique_llm, llm, i, res, generated_response,
                   critiqued_response, grade_output, file, last_grade, invocation,
                   base>>

NextHistory ==
    \/ \E q \in HistoryQueries : UpdateCall(q)
    \/ \E q \in HistoryQueries, out \in HistoryOutcomes : GenerateCall(q, out)

HistorySpec == InitHistory /\ [][NextHistory]_vars


(***************************************************************************)
(* Properties of the conversation state under direct calls.  After a call  *)
(* query holds the caller's query object as the call left it: a user       *)
(* mapping at the end of a list has then become a UserMessage.             *)
(***************************************************************************)
\* the last element of the list query
LastOf(q) == q.items[Len(q.items)]
\* an update_chat_history call has just returned or raised
Updated == pc' = "updated"
\* the one message a string query appends
Appended(q) == <<UserMessage(SystemPromptFormat(q))>>

\* C13 as stated: the conversation state is append-only, and each
\* update_chat_history call adds exactly one appended message (string query)
\* or one extended list (list query) at the end.
C13_AppendOnlyOneExtension ==
    /\ [][IsPrefix(messages, messages')]_vars
    /\ [][Updated =>
            \/ query'.type = "str" /\ messages' = messages \o Appended(query')
            \/ query'.type = "list" /\ messages' = messages \o query'.items]_vars

\* C13 amended: the conversation state is append-only under any sequence of
\* update_chat_history and generate calls: its length never decreases and
\* every entry keeps its position, role and content.  An update_chat_history
\* call adds at the end exactly one message (string query), or the whole list
\* (list query whose last element is a UserMessage or a mapping with role and
\* content), and adds nothing for a list whose last element is anything else
\* or for an empty list, which raises IndexError.
C13_AppendOnly ==
    /\ [][IsPrefix(messages, messages')]_vars
    /\ [][Updated =>
            IF query'.type = "str"
            THEN messages' = messages \o Appended(query') /\ result'.kind = "return"
            ELSE IF query'.items = <<>>
            THEN messages' = messages /\ result' = Raises(IndexErrorOnEmpty)
            ELSE IF LastOf(query').cls \in {"UserMessage", "dict"}
            THEN messages' = messages \o query'.items /\ result'.kind = "return"
            ELSE messages' = messages /\ result'.kind = "return"]_vars

C13_Witness ==
    /\ pc = "updated"
    /\ query.type = "list"
    /\ Len(messages) = 4
    /\ SubSeq(messages, 3, 4) = query.items
    /\ messages[1].cls = "UserMessage"
    /\ messages[2].cls = "AIMessage"


\* an update_chat_history call has just been made with a non-empty list query
\* whose last element was not a UserMessage and not a user mapping (a user
\* mapping would by now be a UserMessage)
UpdatedWithOtherList ==
    /\ Updated
    /\ query'.type = "list"
    /\ query'.items # <<>>
    /\ LastOf(query').cls # "UserMessage"

\* C16 as stated: update_chat_history does nothing for a list query whose last
\* element is neither a formatted user message nor a mapping with role "user"
\* (for example a mapping with role "assistant"): the conversation state is
\* left unchanged and no error is raised.
C16_OtherListIsNoOp ==
    [][UpdatedWithOtherList => messages' = messages /\ result'.kind = "return"]_vars

\* C16 amended: update_chat_history does nothing, and raises nothing, for a
\* list query whose last element is neither a UserMessage nor a mapping (for
\* example an AIMessage object); a list whose last element is a mapping with
\* a role other than "user" (for example "assistant") is appended to the
\* conversation state unmodified, again without an error.
C16_OnlyNonMappingIsNoOp ==
    [][UpdatedWithOtherList =>
          /\ result'.kind = "return"
          /\ IF LastOf(query').cls = "dict"
             THEN messages' = messages \o query'.items
             ELSE messages' = messages]_vars

C16_Witness ==
    /\ pc = "updated"
    /\ query = ListV(<<qUser, qReply>>)
    /\ result = Returns(NoneV)
    /\ messages = <<qUser, qRawAssistant>>


(***************************************************************************)
(* The conversation state during invoke (specification Spec).              *)
(***************************************************************************)
\* this step is a generate step or a critique step that called its backend
StepCalled == pc \in {"generate", "critique"} /\ Len(calls') = Len(calls) + 1
\* the backend call of this step came back with non-empty content
StepReplied ==
    /\ StepCalled
    /\ calls'[Len(calls')].raised = NoError
    /\ calls'[Len(calls')].content.type = "str"
    /\ calls'[Len(calls')].content.text # <<>>

\* C14 as stated: during invoke the conversation state grows by exactly one
\* entry for each generate step or critique step that succeeds.
C14_OneEntryPerStep ==
    [][StepReplied => Len(messages') = Len(messages) + 1]_vars

\* C14 amended: during an invoke with a raw string query the conversation
\* state grows by exactly two entries for each generate step or critique step
\* whose backend returns non-empty content: the user message holding the
\* step's prompt, then the assistant message holding the reply.  A step whose
\* backend returns empty content or raises adds the user message alone.  (A
\* list query is not covered: a generate step then adds the entries of the
\* list, or none, before the reply.)
C14_TwoEntriesPerStep ==
    [][(StepCalled /\ query.type = "str") =>
          /\ IsPrefix(messages, messages')
          /\ messages'[Len(messages) + 1].role = "user"
          /\ IF StepReplied
             THEN /\ Len(messages') = Len(messages) + 2
                  /\ messages'[Len(messages')] =
                        [cls |-> "AIMessage", role |-> "assistant",
                         content |-> calls'[Len(calls')].content]
             ELSE Len(messages') = Len(messages) + 1]_vars

C14_Witness ==
    /\ pc = "grade"
    /\ query.type = "str"
    /\ i = 0
    /\ Len(messages) = 4
    /\ messages[2] = AIMessage(calls[1].content)
    /\ messages[4] = AIMessage(calls[2].content)
    /\ messages[3].role = "user"


\* how many entries of the conversation state are the user message holding
\* the system-prompt-formatted query
FormattedQueryCount ==
    Cardinality({k \in 1..Len(messages) :
                    messages[k] = [cls |-> "UserMessage", role |-> "user",
                                   content |-> SystemPromptFormat(query)]})

\* C15 as stated: with a raw string query the formatted query is appended as
\* a user message only on its first use: after an invoke of k >= 2 cycles the
\* conversation state holds that message exactly once.
C15_FormattedQueryOnce ==
    (pc = "done" /\ i + 1 >= 2) => FormattedQueryCount = 1

\* C15 amended: with a raw string query the formatted query is appended as a
\* user message at the start of every cycle: once k cycles have started, the
\* conversation state of an invoke that began with an empty one holds that
\* message exactly k times.
C15_FormattedQueryEveryCycle ==
    (pc # "idle" /\ query.type = "str") => FormattedQueryCount = i + 1

C15_Witness ==
    /\ pc = "done"
    /\ i = 1
    /\ FormattedQueryCount = 2


(***************************************************************************)
(* invoke called again on the same agent (specification ReinvokeSpec).     *)
(***************************************************************************)
\* how many times invoke is called on the agent
MaxInvokes == 2

InitReinvoke ==
    /\ max_iterations = 1
    /\ critique_llm = Backend("absent", "absent")
    /\ llm = critique_llm
    /\ query \in Queries
    /\ pc = "idle"
    /\ Fresh

\* invoke has returned or raised: control is back at the caller, the locals
\* of invoke are gone, the agent object is what invoke left
Return ==
    /\ pc \in {"done", "raised"}
    /\ invocation < MaxInvokes
    /\ pc' = "idle"
    /\ i' = -1
    /\ res' = <<>>
    /\ generated_response' = NoneV
    /\ critiqued_response' = NoneV
    /\ grade_output' = FALSE
    /\ result' = Pending
    /\ UNCHANGED <<max_iterations, critique_llm, llm, messages, query, file, calls,
                   last_grade, sent, invocation, base>>

NextReinvoke ==
    \/ Next
    \/ Return

ReinvokeSpec == InitReinvoke /\ [][NextReinvoke]_vars

\* C17 as stated: the conversation state belongs to one invoke only: it is
\* empty when an invoke starts (no history is supplied by the caller here) and
\* is discarded when the invoke ends, so no message appended during one invoke
\* is part of the history a later invoke sends to a backend.
C17_StatePerInvoke ==
    /\ base = 0
    /\ (pc = "idle" => messages = <<>>)

\* C17 amended: the conversation state is agent.messages, which invoke
\* neither empties when it starts nor discards when it ends: every message
\* stays in place across invokes, a later invoke on the same agent starts
\* with all the messages the earlier ones left (at least one), and every
\* history it sends to a backend begins with them.
C17_StateOutlivesInvoke ==
    /\ [][IsPrefix(messages, messages')]_vars
    /\ []((invocation >= 2 /\ pc # "idle") => base > 0)
    /\ []((pc # "idle" /\ i >= 0) =>
            /\ Len(sent) > base
            /\ IsPrefix(sent, messages)
            /\ \A k \in 1..base : sent[k] = messages[k])

C17_Witness ==
    /\ invocation = 2
    /\ pc = "done"
    /\ base = 6
    /\ Len(sent) = 11
    /\ sent[1] = sent[7]


(***************************************************************************)
(* invoke with generator replies built around the "Final Answer" marker    *)
(* (specification CutSpec).                                                *)
(***************************************************************************)
\* the longest generator reply, in pieces
MaxCutTokens == 4
\* the pieces: the marker, a colon, a space, an answer
CutTokens == {sFinalAnswer, <<":">>, <<" ">>, sFour}
RECURSIVE CutTexts(_)
CutTexts(n) ==
    IF n = 0 THEN {<<>>}
    ELSE CutTexts(n - 1) \cup {t \o tok : t \in CutTexts(n - 1), tok \in CutTokens}
CutOutcomes == {Returns(TextV(t)) : t \in CutTexts(MaxCutTokens)}

InitCut ==
    /\ max_iterations = 1
    /\ critique_llm = Backend("absent", "absent")
    /\ llm = critique_llm
    /\ query \in Queries
    /\ pc = "idle"
    /\ Fresh

NextCut ==
    \/ Invoke
    \/ \E out \in CutOutcomes : LoopGenerate(out)
    \/ \E out \in CritiqueOutcomes : LoopCritique(out)
    \/ \E out2 \in GradeOutcomes : LoopGrade(Pending, out2)
    \/ Finish

CutSpec == InitCut /\ [][NextCut]_vars

\* the text that follows the last occurrence of the marker and its trailing
\* colon, nothing else dropped; the whole text when the marker is absent
AfterMarkerAndColon(text) ==
    LET ind == StrRfind(text, sFinalAnswer)
        rest == StrFrom(text, ind + Len(sFinalAnswer))
    IN  IF ind < 0 THEN text
        ELSE IF rest # <<>> /\ Head(rest) = ":" THEN Tail(rest)
        ELSE rest
\* the position in the conversation state of the prompt of the grade call
\* (like every string given to generate, a prompt is stored inside the system
\* prompt template)
GradePromptAt == IF critiqued_response.type = "None" THEN 4 ELSE 5

\* C18: for any generated response containing the marker "Final Answer", the
\* text passed on to critique and grade, and returned at the end, is exactly
\* the substring that follows the last occurrence of the marker and its
\* trailing colon, with no other character dropped; a response without the
\* marker is passed on unmodified.
C18_CutAfterMarkerAndColon ==
    /\ (pc \in {"critique", "grade", "finish", "done"} =>
          generated_response = TextV(AfterMarkerAndColon(GeneratedIn(1))))
    /\ (pc \in {"grade", "finish", "done"} =>
          messages[3].content =
             SystemPromptFormat(
                critique_prompt(TextV(AfterMarkerAndColon(GeneratedIn(1))), query)))
    /\ (pc \in {"finish", "done"} =>
          messages[GradePromptAt].content =
             SystemPromptFormat(
                grade_prompt(query, TextV(AfterMarkerAndColon(GeneratedIn(1))),
                             critiqued_response)))
    /\ (pc = "done" => result = Returns(TextV(AfterMarkerAndColon(GeneratedIn(1)))))


(***************************************************************************)
(* invoke against stub backends, three cycles at most (specification       *)
(* ScenarioSpec): a generator that replies "Final Answer: 4" or "4", a      *)
(* critic that restates the text it was given or answers "4", a grader     *)
(* that says "True" or "False".                                            *)
(***************************************************************************)
sFinalAnswerFour == sFinalAnswerColon \o <<" ">> \o sFour
StubGeneratorOutcomes == {Returns(TextV(sFinalAnswerFour)), Returns(TextV(sFour))}
StubCritiqueOutcomes(response) == {Returns(response), Returns(TextV(sFour))}
StubGradeOutcomes == {Returns(TextV(sTrueCap)), Returns(TextV(sFalseCap))}

InitScenario ==
    /\ max_iterations = 3
    /\ critique_llm = Backend("absent", "absent")
    /\ llm = critique_llm
    /\ query = TextV(<<"What is 2+2?">>)
    /\ pc = "idle"
    /\ Fresh

NextScenario ==
    \/ Invoke
    \/ \E out \in StubGeneratorOutcomes : LoopGenerate(out)
    \/ \E out \in StubCritiqueOutcomes(generated_response) : LoopCritique(out)
    \/ \E out2 \in StubGradeOutcomes : LoopGrade(Pending, out2)
    \/ Finish

ScenarioSpec == InitScenario /\ [][NextScenario]_vars

\* the run so far is the scenario: every generator reply was
\* "Final Answer: 4", the critic restated the text it was given, and the first
\* grade call answered "True"
ScenarioRun ==
    /\ \A k \in CallsOf("generate") : calls[k].content.text = sFinalAnswerFour
    /\ \A k \in CallsOf("critique") : calls[k].content = generated_response
    /\ \A k \in CallsOf("grade") :
          calls[k].cycle = 1 => calls[k].content.text = sTrueCap
\* how many epoch blocks the written trace holds
EpochBlocksWritten == Cardinality(ChunksAt(file.content, sEpoch))

\* C19 as stated: in the scenario invoke performs exactly 1 cycle, returns
\* exactly "4", and the written trace contains exactly one epoch block.
C19_ScenarioReturnsFour ==
    (pc = "done" /\ ScenarioRun) =>
        /\ i + 1 = 1
        /\ Len(calls) = 3
        /\ result = Returns(TextV(<<"4">>))
        /\ file.writes = 1
        /\ EpochBlocksWritten = 1

\* C19 amended: in the scenario invoke performs exactly 1 cycle, returns
\* exactly " 4" (the space that follows the colon of "Final Answer: 4" is
\* kept), and the written trace contains exactly one epoch block.
C19_ScenarioReturnsSpaceFour ==
    /\ (ScenarioRun => i + 1 <= 1)
    /\ (pc = "done" /\ ScenarioRun) =>
          /\ i + 1 = 1
          /\ Len(calls) = 3
          /\ result = Returns(TextV(<<" ", "4">>))
          /\ file.writes = 1
          /\ EpochBlocksWritten = 1

C19_Witness ==
    /\ pc = "done"
    /\ max_iterations = 3
    /\ ScenarioRun
    /\ Len(calls) = 3
    /\ result = Returns(TextV(<<" ", "4">>))


(***************************************************************************)
(* Role alternation of the conversation state (specification Spec: empty   *)
(* conversation state at the start, raw string query).                     *)
(***************************************************************************)
\* the content a backend call returned is non-empty
NonEmpty(v) ==
    /\ v.type # "None"
    /\ ~(v.type = "str" /\ v.text = <<>>)
    /\ ~(v.type = "dict" /\ v.keys = {})
\* the backend calls that came back with content, with none, by raising
Replied == {k \in 1..Len(calls) : calls[k].raised = NoError /\ NonEmpty(calls[k].content)}
Empty == {k \in 1..Len(calls) : calls[k].raised = NoError /\ ~NonEmpty(calls[k].content)}
Raised == {k \in 1..Len(calls) : calls[k].raised # NoError}
\* user, assistant, user, assistant, ... and of even length
AlternatesEven ==
    /\ Len(messages) % 2 = 0
    /\ \A k \in 1..Len(messages) :
          messages[k].role = (IF k % 2 = 1 THEN "user" ELSE "assistant")
\* the user message at position p has no assistant reply after it
Unanswered(p) ==
    /\ messages[p].role = "user"
    /\ p = Len(messages) \/ messages[p + 1].role = "user"

\* C20: starting from an empty conversation state and a raw string query, as
\* long as every backend call of the generate, critique and grade steps has
\* returned non-empty content, the conversation state has even length and
\* alternates user, assistant, user, assistant, ...; a step whose backend
\* reply is empty leaves its user message with no assistant reply, so the
\* alternation is broken from then on, and no message is taken back when the
\* failure is raised.
C20_RoleAlternation ==
    /\ (Empty = {} /\ Raised = {}) => AlternatesEven
    /\ Empty # {} =>
          /\ ~AlternatesEven
          /\ \E p \in 1..Len(messages) : Unanswered(p)
    /\ Len(messages) = 2 * Cardinality(Replied) + Cardinality(Empty) + Cardinality(Raised)
    /\ (pc = "raised" /\ Len(calls) \in Empty) => Unanswered(Len(messages))

C20_Witness ==
    /\ pc = "raised"
    /\ i = 1
    /\ Cardinality(Empty) = 2
    /\ Len(messages) = 6
    /\ Unanswered(3)
    /\ Unanswered(6)

====
